---- MODULE Spec2Model ----
(***************************************************************************)
(* The VISCA-over-IP command/response engine of                            *)
(* src/src/protocols/camera_protocol.py: VISCADatagramProtocol (the        *)
(* sequence router), CommandTracker, and VISCAProtocol (session, packet    *)
(* codec, retry loop, batch orchestration, concurrency controller).        *)
(*                                                                         *)
(* Bytes are integers 0..255 and byte strings are sequences of them.  A    *)
(* 32-bit sequence number is a pair <<hi, lo>> of 16-bit halves, so that   *)
(* arithmetic modulo 2^32 stays exact.  Python's None is the empty byte    *)
(* string where a byte string is expected.  Coroutines are cut at the      *)
(* awaits that suspend: one action runs a task or callback from one        *)
(* suspension to the next, as the asyncio event loop does.  CancelledError *)
(* is a BaseException (Python >= 3.8): "except Exception" lets it through. *)
(***************************************************************************)
EXTENDS Integers, Sequences, FiniteSets, TLC

VARIABLES
    connected,                  \* VISCAProtocol.connected
    socket,                     \* VISCAProtocol.socket is not None
    transport,                  \* VISCAProtocol.transport is not None
    sequence_number,            \* VISCAProtocol.sequence_number
    command_futures,            \* VISCAProtocol.command_futures: sequence number -> tracker
    trk,                        \* the CommandTracker object each command holds
    concurrency_semaphore,      \* VISCAProtocol.concurrency_semaphore: the Semaphore objects made so far, the last one current
    current_concurrency_limit,  \* VISCAProtocol.current_concurrency_limit
    success_count,              \* VISCAProtocol.success_count
    failure_count,              \* VISCAProtocol.failure_count
    config,                     \* the configuration read in VISCAProtocol.__init__
    cmd,                        \* the position and locals of each command coroutine
    batch,                      \* the position and locals of each batch call
    req,                        \* the arguments of each batch call
    sockbuf,                    \* receive buffer of the synchronous UDP socket
    camera,                     \* the reply payloads the camera of this run may send
    caller,                     \* how the application of this run uses the session
    hist,                       \* history: what was sent and accepted (read by the properties only)
    limiter                     \* one RateLimiter, the clock it reads, and the acquire() calls made on it

vars == <<connected, socket, transport, sequence_number, command_futures, trk,
          concurrency_semaphore, current_concurrency_limit, success_count,
          failure_count, config, cmd, batch, req, sockbuf, camera, caller, hist, limiter>>

\* the session alone
session_vars == <<connected, socket, transport, sequence_number, command_futures, trk,
                  concurrency_semaphore, current_concurrency_limit, success_count,
                  failure_count, config, cmd, batch, req, sockbuf, camera, caller, hist>>

-----------------------------------------------------------------------------
(* Bounds of the model *)

NBatch == 2         \* batch calls made on the session
NParams == 2        \* entries of the command map the model keeps
MaxBuf == 1         \* datagrams the synchronous socket buffers
Res == 2            \* clock ticks in the time a RateLimiter takes to replenish one token
MaxCalls == 7       \* acquire() calls made on the RateLimiter
MaxTime == 5        \* clock ticks a run of the RateLimiter lasts

-----------------------------------------------------------------------------
(* Bytes and sequence numbers *)

None == << >>

And0F(b) == b % 16
AndF0(b) == (b \div 16) * 16
AndFF(v) == v % 256

Half == 256 * 256

\* (n + 1) & 0xFFFFFFFF on <<hi, lo>>
Inc32(n) ==
    IF n[2] + 1 < Half THEN <<n[1], n[2] + 1>>
    ELSE <<(n[1] + 1) % Half, 0>>

\* struct.pack('>H', n), struct.pack('>I', n), struct.unpack('>I', b)
PackH(n) == <<n \div 256, n % 256>>
\* a pack that keeps the low 16 bits only
PackI_low(n) == PackH(0) \o PackH(n[2])
PackI(n) == PackH(n[1]) \o PackH(n[2])
UnpackI(b) == <<b[1] * 256 + b[2], b[3] * 256 + b[4]>>

Slice(b, from, to) == [i \in 1..(IF to >= from THEN to - from + 1 ELSE 0) |-> b[from + i - 1]]

-----------------------------------------------------------------------------
(* Packet codec *)

\* VISCAProtocol._initialize_command_map, in the order of the dict
FullCommandMap ==
    << [name |-> "ExposureGain",         inquiry |-> <<129, 9, 4, 76, 255>>, set |-> <<129, 1, 4, 76, 0, 0, 0>>],
       [name |-> "ExposureExposureTime", inquiry |-> <<129, 9, 4, 74, 255>>, set |-> <<129, 1, 4, 74, 0, 0, 0>>],
       [name |-> "ExposureIris",         inquiry |-> <<129, 9, 4, 75, 255>>, set |-> <<129, 1, 4, 75, 0, 0, 0>>],
       [name |-> "ColorSaturation",      inquiry |-> <<129, 9, 4, 73, 255>>, set |-> <<129, 1, 4, 73, 0, 0, 0>>],
       [name |-> "DigitalBrightLevel",   inquiry |-> <<129, 9, 4, 62, 255>>, set |-> <<129, 1, 4, 62>>] >>

\* the entries the model keeps
command_map == SubSeq(FullCommandMap, 1, NParams)

Names == {command_map[i].name : i \in 1..Len(command_map)}

Entry(name) == CHOOSE e \in {command_map[i] : i \in 1..Len(command_map)} : e.name = name

EndsWithFF(b) == Len(b) > 0 /\ b[Len(b)] = 255

\* VISCAProtocol._create_visca_packet(command, value); value is [isnone, v]
_create_visca_packet(command, value) ==
    IF EndsWithFF(command) /\ value.isnone THEN command
    ELSE
      LET packet == IF EndsWithFF(command) THEN SubSeq(command, 1, Len(command) - 1) ELSE command
          withValue ==
            IF value.isnone THEN packet
            ELSE IF Len(packet) = 7 THEN Append(packet, AndFF(value.v))
            ELSE IF Len(packet) = 6 THEN packet \o <<And0F(value.v \div 16), And0F(value.v)>>
            ELSE Append(packet, IF value.v < 0 THEN 0 ELSE IF value.v > 15 THEN 15 ELSE value.v)
      IN IF EndsWithFF(withValue) THEN withValue ELSE Append(withValue, 255)

NoValue == [isnone |-> TRUE, v |-> 0]
Value(v) == [isnone |-> FALSE, v |-> v]

\* _build_visca_ip_packet that forgets to advance the counter
_build_visca_ip_packet_reuse(seqnum, visca_payload) ==
    LET msg_type == IF Len(visca_payload) >= 2 /\ visca_payload[2] = 9 THEN <<1, 16>> ELSE <<1, 0>>
        header == msg_type \o PackH(Len(visca_payload)) \o PackI(seqnum)
    IN [sequence_number |-> seqnum, packet |-> header \o visca_payload]

\* VISCAProtocol._build_visca_ip_packet: the new counter and the packet
_build_visca_ip_packet(seqnum, visca_payload) ==
    LET next == Inc32(seqnum)
        msg_type == IF Len(visca_payload) >= 2 /\ visca_payload[2] = 9 THEN <<1, 16>> ELSE <<1, 0>>
        header == msg_type \o PackH(Len(visca_payload)) \o PackI(next)
    IN [sequence_number |-> next, packet |-> header \o visca_payload]

\* VISCADatagramProtocol.datagram_received: what it reads from a datagram
Decode(data) == [visca_payload |-> Slice(data, 9, Len(data)), sequence_number |-> UnpackI(Slice(data, 5, 8))]

\* a datagram as the camera frames it: reply header, then the payload
Datagram(seq, payload) == <<1, 17>> \o PackH(Len(payload)) \o PackI(seq) \o payload

-----------------------------------------------------------------------------
(* CommandTracker *)

NoTracker ==
    [sequence_number |-> <<0, 0>>, expect_completion |-> FALSE,
     ack_future |-> "none", completion_future |-> "none",
     ack_payload |-> None, completion_payload |-> None]

\* CommandTracker.__init__
CommandTracker(sequence, expect_completion) ==
    [sequence_number |-> sequence, expect_completion |-> expect_completion,
     ack_future |-> "pending",
     completion_future |-> IF expect_completion THEN "pending" ELSE "none",
     ack_payload |-> None, completion_payload |-> None]

\* CommandTracker._is_completion
_is_completion(payload) ==
    IF Len(payload) < 2 \/ payload[1] # 144 THEN FALSE
    ELSE AndF0(payload[2]) \in {80, 96}

\* handle_response that resolves one future per reply: the first reply only the ACK
handle_response_one_phase(t, payload) ==
    IF t.ack_future = "pending"
    THEN [t EXCEPT !.ack_payload = payload, !.ack_future = "result"]
    ELSE IF t.expect_completion /\ t.completion_future = "pending" /\ _is_completion(payload)
    THEN [t EXCEPT !.completion_payload = payload, !.completion_future = "result"]
    ELSE t

\* CommandTracker.handle_response
handle_response(t, payload) ==
    LET t1 == IF t.ack_future = "pending"
              THEN [t EXCEPT !.ack_payload = payload, !.ack_future = "result"]
              ELSE t
    IN IF t1.expect_completion /\ t1.completion_future = "pending" /\ _is_completion(payload)
       THEN [t1 EXCEPT !.completion_payload = payload, !.completion_future = "result"]
       ELSE t1

\* is_complete that is satisfied by the first reply alone
is_complete_ack_only(t) == t.ack_future = "result"

\* CommandTracker.is_complete
is_complete(t) ==
    IF ~t.expect_completion THEN t.ack_future = "result"
    ELSE t.ack_future = "result" /\ t.completion_future = "result"

\* CommandTracker.cancel
cancel(t) ==
    [t EXCEPT !.ack_future = IF @ = "pending" THEN "cancelled" ELSE @,
              !.completion_future = IF @ = "pending" THEN "cancelled" ELSE @]

\* a tracker that is complete, timed out or cancelled
Terminal(t) ==
    \/ is_complete(t)
    \/ t.ack_future = "cancelled"
    \/ t.completion_future = "cancelled"

-----------------------------------------------------------------------------
(* RateLimiter.  The clock counts ticks of 1 / (max_requests * Res) second   *)
(* and the pool counts tokens in units of 1 / Res token: the                *)
(* "elapsed * max_requests" tokens replenished in elapsed seconds are        *)
(* elapsed units, and the "(1 - tokens) / max_requests" seconds of a wait    *)
(* are Res - tokens ticks.  The record holds the object's fields, the clock  *)
(* time.time() reads, and the acquire() calls made so far: where each is,    *)
(* when it was made, when its sleep ends, when it returned.                  *)

Min(a, b) == IF a < b THEN a ELSE b

\* RateLimiter.__init__ at time now
RateLimiter(max_requests_per_second, now) ==
    [max_requests |-> max_requests_per_second, tokens |-> max_requests_per_second * Res,
     last_update |-> now, locked |-> FALSE, now |-> now, calls |-> << >>]

\* min(self.max_requests, self.tokens + elapsed * self.max_requests)
Replenished(L) == Min(L.max_requests * Res, L.tokens + (L.now - L.last_update))

\* a wait that does not wait
WaitTime_none(tokens) == 0

\* wait_time = (1 - self.tokens) / self.max_requests
WaitTime(tokens) == Res - tokens

\* RateLimiter.acquire: call i has the lock and runs to its return or to its sleep
acquire(L, i) ==
    LET tokens == Replenished(L)
        L1 == [L EXCEPT !.tokens = tokens, !.last_update = L.now]
    IN IF tokens >= Res
       THEN [L1 EXCEPT !.tokens = @ - Res, !.locked = FALSE,
                       !.calls[i].pc = "done", !.calls[i].done = L.now]
       \* await asyncio.sleep(wait_time), inside "async with self.lock"
       ELSE [L1 EXCEPT !.locked = TRUE, !.calls[i].pc = "sleep", !.calls[i].slept = TRUE,
                       !.calls[i].wake = L.now + WaitTime(tokens)]

\* RateLimiter.acquire: the sleep is over
acquire_resumed(L, i) ==
    [L EXCEPT !.tokens = 0, !.locked = FALSE, !.calls[i].pc = "done", !.calls[i].done = L.now]

\* the calls queued on self.lock
LockWaiters(L) == {i \in 1..Len(L.calls) : L.calls[i].pc = "lock_wait"}

NewCall(now) == [pc |-> "lock_wait", called |-> now, wake |-> 0, done |-> 0, slept |-> FALSE]

-----------------------------------------------------------------------------
(* The state as one record, so that a handler is a function of it *)

St ==
    [connected |-> connected, socket |-> socket, transport |-> transport,
     sequence_number |-> sequence_number, command_futures |-> command_futures,
     trk |-> trk, concurrency_semaphore |-> concurrency_semaphore,
     current_concurrency_limit |-> current_concurrency_limit,
     success_count |-> success_count, failure_count |-> failure_count,
     config |-> config, cmd |-> cmd, batch |-> batch, req |-> req,
     sockbuf |-> sockbuf, camera |-> camera, caller |-> caller, hist |-> hist]

Becomes(S) ==
    \E T \in {S} :
        /\ connected' = T.connected
        /\ socket' = T.socket
        /\ transport' = T.transport
        /\ sequence_number' = T.sequence_number
        /\ command_futures' = T.command_futures
        /\ trk' = T.trk
        /\ concurrency_semaphore' = T.concurrency_semaphore
        /\ current_concurrency_limit' = T.current_concurrency_limit
        /\ success_count' = T.success_count
        /\ failure_count' = T.failure_count
        /\ config' = T.config
        /\ cmd' = T.cmd
        /\ batch' = T.batch
        /\ req' = T.req
        /\ sockbuf' = T.sockbuf
        /\ camera' = T.camera
        /\ caller' = T.caller
        /\ hist' = T.hist
        /\ limiter' = limiter

\* dict.pop(key, None) and dict[key] = value on command_futures
Pop(table, key) == [k \in (DOMAIN table) \ {key} |-> table[k]]
Put(table, key, value) == [k \in (DOMAIN table) \cup {key} |-> IF k = key THEN value ELSE table[k]]

\* self.command_futures.pop(seq, None) where t is the tracker as the code leaves it;
\* history notes a tracker that left the table while not terminal
Remove(S, seq, t) ==
    [S EXCEPT !.command_futures = Pop(@, seq),
              !.hist.left_open = @ \/ (seq \in DOMAIN S.command_futures /\ ~Terminal(t))]

-----------------------------------------------------------------------------
(* Sequence router *)

\* datagram_received that fails the commands in flight on a datagram shorter than
\* the header
datagram_received_raising(S, data) ==
    IF Len(data) < 8
    THEN [S EXCEPT !.trk = [c \in DOMAIN S.trk |->
                              IF c \in {S.command_futures[q] : q \in DOMAIN S.command_futures}
                              THEN cancel(S.trk[c]) ELSE S.trk[c]]]
    ELSE IF Len(data) > 8 THEN
      LET visca_payload == Slice(data, 9, Len(data))
          seq == UnpackI(Slice(data, 5, 8))
      IN IF seq \in DOMAIN S.command_futures THEN
           LET c == S.command_futures[seq]
               t == handle_response(S.trk[c], visca_payload)
           IN [S EXCEPT !.trk[c] = t,
                        !.command_futures = IF is_complete(t) THEN Pop(@, seq) ELSE @]
         ELSE S
    ELSE S

\* datagram_received that hands a reply with an unknown sequence number to some
\* registered tracker instead of dropping it
datagram_received_any(S, data) ==
    IF Len(data) > 8 /\ DOMAIN S.command_futures # {} THEN
      LET visca_payload == Slice(data, 9, Len(data))
          got == UnpackI(Slice(data, 5, 8))
          seq == IF got \in DOMAIN S.command_futures THEN got
                 ELSE CHOOSE q \in DOMAIN S.command_futures : TRUE
          c == S.command_futures[seq]
          t == handle_response(S.trk[c], visca_payload)
      IN [S EXCEPT !.trk[c] = t,
                   !.command_futures = IF is_complete(t) THEN Pop(@, seq) ELSE @]
    ELSE S

\* VISCADatagramProtocol.datagram_received
datagram_received(S, data) ==
    IF Len(data) > 8 THEN
      LET visca_payload == Slice(data, 9, Len(data))
          seq == UnpackI(Slice(data, 5, 8))
      IN IF seq \in DOMAIN S.command_futures THEN
           LET c == S.command_futures[seq]
               t == handle_response(S.trk[c], visca_payload)
               S1 == [S EXCEPT !.trk[c] = t]
           IN IF is_complete(t) THEN Remove(S1, seq, t) ELSE S1
         ELSE S
    ELSE S

-----------------------------------------------------------------------------
(* Commands: one coroutine per parameter, <<b, k>> for item k of batch b.   *)
(* <<b, 0>> is the command the batch coroutine runs itself (the sequential *)
(* fallback, and every command of a synchronous batch).                    *)

Batches == 1..NBatch
MaxReq == NParams + 1               \* the longest params_dict: every known name and an unknown one
Cmds == Batches \X (0..MaxReq)

max_attempts == 3                   \* VISCAProtocol.max_attempts

\* sent: the packets of this dispatch handed to the transport or socket so far
IdleCmd ==
    [pc |-> "none", attempt |-> 0, sent |-> 0, sem |-> 0, item |-> 0, ok |-> FALSE, response |-> None]

Item(S, c) == S.req[c[1]].items[S.cmd[c].item]
IsSet(S, c) == S.req[c[1]].kind \in {"set", "sync_set"}
Known(name) == name \in Names

\* VISCAProtocol.is_connected
is_connected(S) == S.connected /\ (S.socket \/ S.transport)

\* the VISCA payload of command c
Command(S, c) ==
    IF IsSet(S, c) THEN _create_visca_packet(Entry(Item(S, c).name).set, Value(Item(S, c).value.v))
    ELSE _create_visca_packet(Entry(Item(S, c).name).inquiry, NoValue)

\* the event a fallback leaves in the batch's trace
Log(S, b, ev, k) == [S EXCEPT !.batch[b].trace = Append(@, [ev |-> ev, item |-> k])]

\* VISCAProtocol._retry_sequential, from the top of its loop
_retry_sequential_next(S, b) ==
    IF S.batch[b].fbq # << >> THEN
      \* await asyncio.sleep(self.sequential_pacing)
      Log([S EXCEPT !.batch[b].pc = "fb_pace"], b, "sequential_pacing", Head(S.batch[b].fbq))
    ELSE
      \* back in set_camera_params_controlled_async: success_count += retry_success
      LET total == S.batch[b].succ + S.batch[b].retry
      IN [S EXCEPT !.batch[b].pc = "done", !.batch[b].succ = total,
                   !.batch[b].ret = IF total > 0 THEN "True" ELSE "False"]

\* VISCAProtocol._retry_sequential after _set_single_param_async returned or raised
_retry_sequential_result(S, b, pc, ok) ==
    LET rest == [S EXCEPT !.batch[b].fbq = Tail(@)]
    IN IF pc = "cancelled" THEN [S EXCEPT !.batch[b].pc = "raised"]
       ELSE IF ok THEN _retry_sequential_next([rest EXCEPT !.batch[b].retry = @ + 1], b)
       \* await asyncio.sleep(self.retry_delay_pacing)
       ELSE Log([rest EXCEPT !.batch[b].pc = "fb_delay"], b, "retry_delay", Head(S.batch[b].fbq))

\* an exit of "async with" that keeps the slot
SemRelease_kept(sems, k) == sems

\* release of asyncio.Semaphore k (the exit of "async with")
SemRelease(sems, k) == IF k > 0 THEN [sems EXCEPT ![k].value = @ + 1] ELSE sems

\* a command coroutine ends: it returned (pc "done") or raised CancelledError (pc
\* "cancelled"); its locals, the tracker among them, are dropped
Finish(S, c, pc, ok, response) ==
    LET S1 == [S EXCEPT !.cmd[c].pc = pc, !.cmd[c].ok = ok, !.cmd[c].response = response,
                        !.cmd[c].sem = 0, !.cmd[c].attempt = 0, !.cmd[c].sent = 0,
                        !.trk[c] = NoTracker,
                        !.concurrency_semaphore = SemRelease(@, S.cmd[c].sem)]
    IN IF c[2] = 0 /\ S.req[c[1]].kind = "set" THEN _retry_sequential_result(S1, c[1], pc, ok)
       ELSE S1

\* VISCAProtocol._set_single_param_async: the finally clause, then return or raise
SetReturn(S, c, pc, ok) ==
    Finish(Remove(S, S.trk[c].sequence_number, S.trk[c]), c, pc, ok, None)

\* VISCAProtocol._set_single_param_async after wait_for_completion returned
\* a completion check that takes the error class for a success as well
CompletionResult_any_class(S, c) ==
    LET completion == S.trk[c].completion_payload
    IN SetReturn(S, c, "done",
                 completion # None /\ completion[1] = 144 /\ AndF0(completion[2]) \in {80, 96})

CompletionResult(S, c) ==
    LET completion == S.trk[c].completion_payload
    IN SetReturn(S, c, "done",
                 completion # None /\ completion[1] = 144 /\ AndF0(completion[2]) = 80)

\* VISCAProtocol._set_single_param_async: wait_for_completion timed out
CompletionTimeout(S, c) ==
    SetReturn([S EXCEPT !.trk[c] = cancel(@)], c, "done", FALSE)

\* VISCAProtocol._set_single_param_async after _send_visca_command_async returned
\* (response, tracker); the tracker is there exactly when the response is
AfterSend(S, c, response) ==
    IF response # None /\ Len(response) >= 3 THEN
      IF response[1] = 144 /\ AndF0(response[2]) = 64 THEN
        \* await tracker.wait_for_completion(self.timeout)
        IF S.trk[c].completion_future = "pending" THEN [S EXCEPT !.cmd[c].pc = "wait_completion"]
        ELSE IF S.trk[c].completion_future = "result" THEN CompletionResult(S, c)
        ELSE SetReturn(S, c, "cancelled", FALSE)
      ELSE IF response[1] = 144 /\ AndF0(response[2]) = 80 THEN SetReturn(S, c, "done", TRUE)
      ELSE SetReturn(S, c, "done", FALSE)
    ELSE Finish(S, c, "done", FALSE, None)

\* VISCAProtocol._send_visca_command_async returns response (None: it failed)
SendReturned(S, c, response) ==
    IF IsSet(S, c) THEN AfterSend(S, c, response)
    ELSE Finish(S, c, "done", response # None, response)

\* the attempt loop with one pass too many
NextAttempt_extra(S, c) ==
    IF S.cmd[c].attempt < max_attempts
    THEN [S EXCEPT !.cmd[c].pc = "v_sleep"]
    ELSE SendReturned(S, c, None)

\* VISCAProtocol._send_visca_command_async: the end of one failed attempt
NextAttempt(S, c) ==
    IF S.cmd[c].attempt < max_attempts - 1
    THEN [S EXCEPT !.cmd[c].pc = "v_sleep"]        \* await asyncio.sleep(self.v_cycle)
    ELSE SendReturned(S, c, None)

\* history: a packet was built with sequence number seq
Assigned(S, seq) ==
    [S EXCEPT !.hist.assigned = @ \cup {seq}, !.hist.packets = @ + 1]

\* history: the packet of command c's attempt went out on the transport
Sent(S, c, attempt) ==
    LET class == IF IsSet(S, c) THEN "set" ELSE "get"
    IN [S EXCEPT !.cmd[c].sent = @ + 1,
                 !.hist.commands[class] = IF attempt = 0 THEN @ + 1 ELSE @]

\* VISCAProtocol._send_visca_command_async: one pass of the attempt loop up to the await
SendAttempt(S, c, attempt) ==
    LET built == _build_visca_ip_packet(S.sequence_number, Command(S, c))
        seq == UnpackI(Slice(built.packet, 5, 8))
        tracker == CommandTracker(seq, IsSet(S, c))
        S1 == [Assigned(S, seq) EXCEPT !.sequence_number = built.sequence_number,
                                       !.command_futures = Put(@, seq, c),
                                       !.trk[c] = tracker,
                                       !.cmd[c].attempt = attempt]
    IN IF S.transport
       \* sent; await tracker.wait_for_ack(self.timeout)
       THEN [Sent(S1, c, attempt) EXCEPT !.cmd[c].pc = "wait_ack"]
       \* self.transport is None: AttributeError, "except Exception"
       ELSE NextAttempt([Remove(S1, seq, cancel(tracker)) EXCEPT !.trk[c] = cancel(@)], c)

\* VISCAProtocol._send_visca_command_async after wait_for_ack returned
AckResult(S, c) ==
    LET response == S.trk[c].ack_payload
        seq == S.trk[c].sequence_number
    IN IF Len(response) >= 3 /\ response[1] = 144 THEN
         IF ~S.trk[c].expect_completion
         THEN SendReturned(Remove(S, seq, S.trk[c]), c, response)
         ELSE SendReturned(S, c, response)
       ELSE NextAttempt([Remove(S, seq, cancel(S.trk[c])) EXCEPT !.trk[c] = cancel(@)], c)

\* VISCAProtocol._send_visca_command_async: wait_for_ack timed out
\* the timeout branch without its pop: the tracker stays in the table
AckTimeout_kept(S, c) ==
    NextAttempt([S EXCEPT !.trk[c] = cancel(@)], c)

AckTimeout(S, c) ==
    NextAttempt([Remove(S, S.trk[c].sequence_number, cancel(S.trk[c]))
                    EXCEPT !.trk[c] = cancel(@)], c)

\* CommandTracker.wait_for_ack / wait_for_completion: asyncio.wait_for runs out of
\* time, cancels the future, and leaves the task to resume at pc
WaitForExpired(S, c, pc) ==
    IF pc = "ack_timeout"
    THEN [S EXCEPT !.trk[c].ack_future = "cancelled", !.cmd[c].pc = pc]
    ELSE [S EXCEPT !.trk[c].completion_future = "cancelled", !.cmd[c].pc = pc]

\* VISCAProtocol._send_visca_command_async, entered
Send(S, c) ==
    IF ~is_connected(S) THEN SendReturned(S, c, None)
    ELSE SendAttempt(S, c, 0)

\* VISCAProtocol._set_single_param_async, entered; a get task enters _send_visca_command_async
Body(S, c) ==
    IF IsSet(S, c) /\ ~Item(S, c).value.isint THEN Finish(S, c, "done", FALSE, None)   \* ValueError
    ELSE Send(S, c)

\* _set_single_param_controlled_async / _get_single_param_controlled_async inside "async with"
Acquired(S, c) ==
    IF S.current_concurrency_limit > 1
    THEN [S EXCEPT !.cmd[c].pc = "pacing"]         \* await asyncio.sleep(self.concurrent_pacing)
    ELSE Body(S, c)

\* a new task runs to its first suspension
TaskStart(S, c) ==
    IF S.config.concurrency_enabled THEN
      LET k == Len(S.concurrency_semaphore)
          sem == S.concurrency_semaphore[k]
      IN IF sem.value > 0 /\ sem.waiters = << >>
         THEN Acquired([S EXCEPT !.concurrency_semaphore[k].value = @ - 1, !.cmd[c].sem = k], c)
         ELSE [S EXCEPT !.concurrency_semaphore[k].waiters = Append(@, c), !.cmd[c].pc = "sem_wait"]
    ELSE Body(S, c)

-----------------------------------------------------------------------------
(* Batch calls *)

EmptyTable == [k \in {} |-> <<0, 0>>]

IdleBatch ==
    [pc |-> "idle", succ |-> 0, retry |-> 0, fbq |-> << >>, failed_params |-> << >>, ret |-> "none",
     config_dict |-> [n \in {} |-> ""], trace |-> << >>]

Digit(d) ==
    CASE d = 0 -> "0" [] d = 1 -> "1" [] d = 2 -> "2" [] d = 3 -> "3" [] d = 4 -> "4"
      [] d = 5 -> "5" [] d = 6 -> "6" [] d = 7 -> "7" [] d = 8 -> "8" [] d = 9 -> "9"

RECURSIVE Str(_)
\* str(value) of a non-negative int
Str(n) == IF n < 10 THEN Digit(n) ELSE Str(n \div 10) \o Digit(n % 10)

Bool(x) == IF x THEN "True" ELSE "False"

\* the items of batch b that got a task, in the order the tasks were created
TaskItems(S, b) ==
    LET items == S.req[b].items
    IN SelectSeq([k \in 1..Len(items) |-> k], LAMBDA k : S.cmd[<<b, k>>].pc # "none")

\* VISCAProtocol._clear_pending_sequences
_clear_pending_sequences(S) ==
    LET held == {S.command_futures[q] : q \in DOMAIN S.command_futures}
    IN [S EXCEPT !.trk = [c \in Cmds |-> IF c \in held THEN cancel(S.trk[c]) ELSE S.trk[c]],
                 !.command_futures = EmptyTable,
                 !.hist.left_open = @ \/ \E c \in held : ~Terminal(cancel(S.trk[c]))]

\* asyncio.create_task for every item the batch dispatches, then "await asyncio.gather"
Spawn(S, b) ==
    LET items == S.req[b].items
        S1 == [S EXCEPT !.cmd = [c \in Cmds |->
                   IF c[1] = b /\ c[2] \in 1..Len(items) /\ Known(items[c[2]].name)
                   THEN [IdleCmd EXCEPT !.pc = "new", !.item = c[2]]
                   ELSE S.cmd[c]]]
    IN IF TaskItems(S1, b) = << >>
       THEN [S EXCEPT !.batch[b].pc = "done", !.batch[b].ret = "False"]
       ELSE [S1 EXCEPT !.batch[b].pc = "spawned"]

\* set_camera_params_controlled_async / _set_camera_params_uncontrolled_async /
\* get_camera_params_controlled_async / _get_camera_params_uncontrolled_async,
\* after the rate limiter let the call through
Dispatch(S, b) ==
    IF S.req[b].kind = "get" THEN Spawn(_clear_pending_sequences(S), b)
    ELSE Spawn(S, b)

\* whether the call goes through RateLimiter.acquire first
RateLimited(S, b) ==
    /\ S.config.concurrency_enabled
    /\ IF S.req[b].kind = "get" THEN S.config.rate_limit_get ELSE S.config.rate_limit_set

\* history: the batch's RateLimiter.acquire returned, one token of its class granted
Granted(S, b) == [S EXCEPT !.hist.tokens[S.req[b].kind] = @ + 1]

\* set_camera_params_async / get_camera_params_async, entered; the limiter
\* either grants a token at once or suspends the call (wait)
Call(S, b, wait) ==
    IF S.req[b].kind = "set" /\ S.req[b].items = << >>
    THEN [S EXCEPT !.batch[b].pc = "done", !.batch[b].ret = "True"]
    ELSE IF RateLimited(S, b) THEN
      IF wait THEN [S EXCEPT !.batch[b].pc = "rate_limit"]
      ELSE Dispatch(Granted(S, b), b)
    ELSE Dispatch(S, b)

RECURSIVE RunTasks(_, _, _)
\* the tasks of one batch run, in the order they were created, each to its first suspension
RunTasks(S, b, ks) ==
    IF ks = << >> THEN S ELSE RunTasks(TaskStart(S, <<b, Head(ks)>>), b, Tail(ks))

\* the inquiry reply as _get_camera_params_uncontrolled_async reads it
ParseUncontrolled(response) ==
    IF response # None /\ Len(response) >= 3 THEN
      IF response[1] = 144 /\ response[2] = 80 THEN
        IF Len(response) = 4 THEN Str(response[3])
        ELSE IF Len(response) = 7
        THEN Str(And0F(response[3]) * 4096 + And0F(response[4]) * 256
                 + And0F(response[5]) * 16 + And0F(response[6]))
        ELSE "0"
      ELSE "0"
    ELSE "0"

\* whether get_camera_params_controlled_async stores a value for the reply
ParsesControlled(result) ==
    /\ result # None /\ Len(result) >= 3
    /\ result[1] = 144 /\ result[2] = 80
    /\ Len(result) \in {4, 7}

\* the four nibbles weighted in the reverse order
ParseControlled_reversed(result) ==
    IF Len(result) = 4 THEN Str(result[3])
    ELSE Str(And0F(result[6]) * 4096 + And0F(result[5]) * 256
             + And0F(result[4]) * 16 + And0F(result[3]))

\* the value get_camera_params_controlled_async stores for a reply it reads
ParseControlled(result) ==
    IF Len(result) = 4 THEN Str(result[3])
    ELSE Str(And0F(result[3]) * 4096 + And0F(result[4]) * 256
             + And0F(result[5]) * 16 + And0F(result[6]))

\* the results of the batch's tasks, as gather returns them: True only for a set that returned True
Succeeded(S, b) ==
    {k \in 1..Len(S.req[b].items) : S.cmd[<<b, k>>].pc = "done" /\ S.cmd[<<b, k>>].ok}

\* an adjustment that raises the limit
HalvedLimit_raised(limit) == limit + 1

\* the halving without its floor, and off by one
HalvedLimit_unfloored(limit) == (limit - 1) \div 2

\* max(1, self.current_concurrency_limit // 2)
HalvedLimit(limit) == IF limit \div 2 > 1 THEN limit \div 2 ELSE 1

\* set_camera_params_controlled_async after gather
ControlledSetDone(S, b) ==
    LET tasks == TaskItems(S, b)
        success == Cardinality(Succeeded(S, b))
        failure == Len(tasks) - success
        total_params == Len(S.req[b].items)
        S1 == [S EXCEPT !.success_count = @ + success, !.failure_count = @ + failure,
                        !.batch[b].succ = success]
        limit == HalvedLimit(S.current_concurrency_limit)
        failed_params == SelectSeq(tasks, LAMBDA k : k \notin Succeeded(S, b))
        S2 == [S1 EXCEPT !.current_concurrency_limit = limit,
                         !.concurrency_semaphore = Append(@, [value |-> limit, waiters |-> << >>])]
    IN IF S.config.fallback_to_sequential
          /\ 2 * failure > total_params /\ S.current_concurrency_limit > 1
       THEN IF failed_params # << >>
            THEN _retry_sequential_next([S2 EXCEPT !.batch[b].fbq = failed_params,
                                                   !.batch[b].failed_params = failed_params,
                                                   !.batch[b].retry = 0], b)
            ELSE [S2 EXCEPT !.batch[b].pc = "done", !.batch[b].ret = Bool(success > 0)]
       ELSE [S1 EXCEPT !.batch[b].pc = "done", !.batch[b].ret = Bool(success > 0)]

\* _set_camera_params_uncontrolled_async after gather
UncontrolledSetDone(S, b) ==
    LET success == Cardinality(Succeeded(S, b))
    IN [S EXCEPT !.batch[b].pc = "done", !.batch[b].succ = success, !.batch[b].ret = Bool(success > 0)]

\* history: the inquiries of batch b for the names ns got no reply of a known shape
Unread(S, b, ns) == [S EXCEPT !.hist.unread = @ \cup {<<b, n>> : n \in ns}]

\* history: the replies rs (pairs of name and payload) were handed to batch b's parsing
Replied(S, b, rs) == [S EXCEPT !.hist.replied = @ \cup {<<b, r[1], r[2]>> : r \in rs}]

\* get_camera_params_controlled_async / _get_camera_params_uncontrolled_async after gather
GetDone(S, b) ==
    LET items == S.req[b].items
        resp(k) == IF S.cmd[<<b, k>>].pc = "done" THEN S.cmd[<<b, k>>].response ELSE None
        read == IF S.config.concurrency_enabled
                THEN {k \in 1..Len(items) : ParsesControlled(resp(k))}
                ELSE 1..Len(items)
        key(n) == CHOOSE k \in read : items[k].name = n
        dict == [n \in {items[k].name : k \in read} |->
                   IF S.config.concurrency_enabled THEN ParseControlled(resp(key(n)))
                   ELSE ParseUncontrolled(resp(key(n)))]
        got == {<<items[k].name, resp(k)>> : k \in {j \in 1..Len(items) : resp(j) # None}}
    IN IF ~S.config.concurrency_enabled
          /\ \E k \in 1..Len(items) : S.cmd[<<b, k>>].pc = "cancelled"
       \* a CancelledError among the results is no Exception: len(response) raises TypeError
       THEN [S EXCEPT !.batch[b].pc = "raised"]
       ELSE [Replied(Unread(S, b, {items[k].name : k \in {j \in 1..Len(items) : ~ParsesControlled(resp(j))}}),
                     b, got)
                EXCEPT !.batch[b].pc = "done", !.batch[b].config_dict = dict,
                       !.batch[b].ret = IF read # {} THEN "dict" ELSE "None"]

\* the batch coroutine resumes when gather has every result
Gathered(S, b) ==
    IF S.req[b].kind = "get" THEN GetDone(S, b)
    ELSE IF S.config.concurrency_enabled THEN ControlledSetDone(S, b)
    ELSE UncontrolledSetDone(S, b)

\* _retry_sequential: the pacing sleep is over, _set_single_param_async runs for the next item
FallbackDispatch(S, b) ==
    LET k == Head(S.batch[b].fbq)
        S1 == Log([S EXCEPT !.batch[b].pc = "fb_run",
                            !.cmd[<<b, 0>>] = [IdleCmd EXCEPT !.pc = "new", !.item = k]],
                  b, "dispatch", k)
    \* the body runs on the one session S1 (S1 is bound once)
    IN CHOOSE S2 \in { Body(T, <<b, 0>>) : T \in {S1} } : TRUE

-----------------------------------------------------------------------------
(* The synchronous path: set_camera_params / get_camera_params on the blocking *)
(* socket.  The batch runs its commands itself, as <<b, 0>>.                  *)

\* the inquiry reply as get_camera_params reads it
ParseSync(response) ==
    IF response # None /\ Len(response) >= 3 THEN
      IF response[1] = 144 /\ response[2] = 80 THEN
        IF Len(response) = 4 THEN Str(response[3])
        ELSE IF Len(response) = 7
        THEN Str(And0F(response[3]) * 4096 + And0F(response[4]) * 256
                 + And0F(response[5]) * 16 + And0F(response[6]))
        ELSE "0"
      ELSE "0"
    ELSE "0"

\* dict[key] = value on config_dict
Store(dict, key, value) == [n \in (DOMAIN dict) \cup {key} |-> IF n = key THEN value ELSE dict[n]]

\* a reply is taken for the command now running; history notes whether the datagram
\* carried the sequence number of one of that command's own packets
Accept(S, data) ==
    [S EXCEPT !.hist.misattributed = @ \/ UnpackI(Slice(data, 5, 8)) \notin S.hist.own]

RECURSIVE SyncLoop(_, _), SyncAfterSend(_, _, _), SyncNextAttempt(_, _), SyncAttempt(_, _, _)

\* set_camera_params / get_camera_params: the loop over the parameters, from its top
SyncLoop(S, b) ==
    IF S.batch[b].fbq = << >> THEN
      IF S.req[b].kind = "sync_set"
      THEN [S EXCEPT !.batch[b].pc = "done", !.batch[b].ret = Bool(S.batch[b].succ > 0),
                     !.cmd[<<b, 0>>] = IdleCmd]
      ELSE [S EXCEPT !.batch[b].pc = "done",
                     !.batch[b].ret = IF DOMAIN S.batch[b].config_dict # {} THEN "dict" ELSE "None",
                     !.cmd[<<b, 0>>] = IdleCmd]
    ELSE
      LET k == Head(S.batch[b].fbq)
          item == S.req[b].items[k]
          S1 == [S EXCEPT !.batch[b].fbq = Tail(@),
                          !.cmd[<<b, 0>>] = [IdleCmd EXCEPT !.pc = "new", !.item = k],
                          !.hist.own = {}]
      IN IF S.req[b].kind = "sync_set" /\ (~Known(item.name) \/ ~item.value.isint)
         THEN SyncLoop(S1, b)                       \* unknown parameter, or ValueError
         \* _send_visca_command, entered
         ELSE IF ~is_connected(S1) THEN SyncAfterSend(S1, b, None)
         ELSE SyncAttempt(S1, b, 0)

\* set_camera_params / get_camera_params after _send_visca_command returned response
SyncAfterSend(S, b, response) ==
    IF S.req[b].kind = "sync_set" THEN
      IF response # None /\ Len(response) >= 3 THEN
        IF response[1] = 144 /\ AndF0(response[2]) = 64
        THEN [S EXCEPT !.cmd[<<b, 0>>].pc = "sync_recv_completion"]   \* self.socket.recvfrom(1024)
        ELSE IF response[1] = 144 /\ AndF0(response[2]) = 80
        THEN SyncLoop([S EXCEPT !.batch[b].succ = @ + 1], b)
        ELSE SyncLoop(S, b)
      ELSE SyncLoop(S, b)
    ELSE
      LET name == S.req[b].items[S.cmd[<<b, 0>>].item].name
          S0 == IF response # None THEN Replied(S, b, {<<name, response>>}) ELSE S
          S1 == IF ParsesControlled(response) THEN S0 ELSE Unread(S0, b, {name})
      IN SyncLoop([S1 EXCEPT !.batch[b].config_dict = Store(@, name, ParseSync(response))], b)

\* _send_visca_command: the end of one failed attempt
SyncNextAttempt(S, b) ==
    IF S.cmd[<<b, 0>>].attempt < max_attempts - 1
    THEN [S EXCEPT !.cmd[<<b, 0>>].pc = "sync_sleep"]      \* time.sleep(self.v_cycle)
    ELSE SyncAfterSend(S, b, None)

\* _send_visca_command: one pass of the attempt loop up to recvfrom
SyncAttempt(S, b, attempt) ==
    LET c == <<b, 0>>
        built == _build_visca_ip_packet(S.sequence_number, Command(S, c))
        S1 == [Assigned(S, built.sequence_number)
                  EXCEPT !.sequence_number = built.sequence_number,
                         !.cmd[c].attempt = attempt]
    IN IF S.socket
       THEN [S1 EXCEPT !.cmd[c].pc = "sync_recv", !.cmd[c].sent = @ + 1,
                       !.hist.sync_sent = @ \cup {built.sequence_number},
                       !.hist.own = @ \cup {built.sequence_number}]
       ELSE SyncNextAttempt(S1, b)                  \* self.socket is None: AttributeError

\* _send_visca_command after recvfrom returned data
SyncReceived(S, b, data) ==
    LET visca_payload == Slice(data, 9, Len(data))
    IN IF Len(data) > 8 /\ Len(visca_payload) >= 3 /\ visca_payload[1] = 144
       THEN SyncAfterSend(Accept(S, data), b, visca_payload)
       ELSE SyncNextAttempt(S, b)

\* set_camera_params after the recvfrom for the completion returned data
SyncCompletionReceived(S, b, data) ==
    LET comp_payload == Slice(data, 9, Len(data))
    IN IF Len(data) > 8 /\ Len(comp_payload) >= 2
          /\ comp_payload[1] = 144 /\ AndF0(comp_payload[2]) = 80
       THEN SyncLoop([Accept(S, data) EXCEPT !.batch[b].succ = @ + 1], b)
       ELSE SyncLoop(S, b)

\* set_camera_params / get_camera_params, entered
SyncEnter(S, b) ==
    LET all == [k \in 1..Len(S.req[b].items) |-> k]
    IN IF S.req[b].kind = "sync_set" THEN
         IF S.req[b].items = << >>
         THEN [S EXCEPT !.batch[b].pc = "done", !.batch[b].ret = "True"]
         ELSE SyncLoop([S EXCEPT !.batch[b].pc = "sync", !.batch[b].fbq = all], b)
       \* get_camera_params: self.socket.setblocking raises when there is no socket
       ELSE IF ~S.socket THEN [S EXCEPT !.batch[b].pc = "raised"]
       ELSE SyncLoop([S EXCEPT !.batch[b].pc = "sync", !.batch[b].fbq = all, !.sockbuf = << >>], b)

-----------------------------------------------------------------------------
(* What the camera and the network may deliver *)

ACK == <<144, 65, 255>>             \* 90 41 FF
COMPLETION == <<144, 80, 10, 255>>  \* 90 50 0A FF: a completion, and the 4-byte inquiry reply
ERROR == <<144, 96, 2, 255>>        \* 90 60 02 FF
OTHERCLASS == <<144, 48, 255>>      \* device-reply header, class neither ACK nor completion
VALUE7 == <<144, 80, 1, 2, 3, 4, 255>>   \* 90 50 01 02 03 04 FF: the 7-byte inquiry reply
BADHEADER == <<128, 80, 255>>       \* not the device-reply header
SHORT == <<144, 65>>                \* two bytes

ReplyPayloads == {ACK, COMPLETION, ERROR, OTHERCLASS, BADHEADER, SHORT}

\* a datagram as it may arrive: whole, cut to its header, cut one byte short of the
\* header, or empty
Cuts(data) == {data, SubSeq(data, 1, 8), SubSeq(data, 1, 7), << >>}

\* sequence numbers a datagram may carry: those of registered trackers, the last
\* one assigned (possibly stale by now) and one never assigned
ProbeSeqs == (DOMAIN command_futures) \cup {sequence_number, Inc32(sequence_number)}

-----------------------------------------------------------------------------
(* Requests *)

Param(name, isint) == [name |-> name, value |-> [isint |-> isint, v |-> 9]]

\* an item whose value is the integer v
ParamV(name, v) == [name |-> name, value |-> [isint |-> TRUE, v |-> v]]

SetReq(items) == [kind |-> "set", items |-> items]
GetReq == [kind |-> "get", items |-> [i \in 1..Len(command_map) |-> Param(command_map[i].name, TRUE)]]
NoReq == [kind |-> "none", items |-> << >>]

Cfg(enabled, maxc, fallback, limited) ==
    [concurrency_enabled |-> enabled, max_concurrent |-> maxc,
     fallback_to_sequential |-> fallback, rate_limit_set |-> limited, rate_limit_get |-> limited]

P1 == command_map[1].name
P2 == command_map[2].name

SyncSetReq(items) == [kind |-> "sync_set", items |-> items]
SyncGetReq == [kind |-> "sync_get", items |-> GetReq.items]

\* the camera of a run: the payloads it replies with, whether replies may be lost or
\* late (so that timeouts expire), and whether stale or foreign datagrams arrive
Camera(payloads, lossy, stale) == [payloads |-> payloads, lossy |-> lossy, stale |-> stale]

Scenario(cfg, seq0, cam, who, req1, req2) ==
    [config |-> cfg, seq0 |-> seq0, camera |-> cam, caller |-> who,
     req |-> [b \in Batches |-> IF b = 1 THEN req1 ELSE IF b = 2 THEN req2 ELSE NoReq]]

Wrap == <<Half - 1, Half - 2>>       \* 0xFFFFFFFE: the counter is two packets from wrapping

Scenarios ==
    { \* the controller: two set batches, the second fails at once and halves the limit
      Scenario(Cfg(TRUE, 2, TRUE, FALSE), <<0, 0>>, Camera({ACK, COMPLETION}, TRUE, FALSE), "async",
               SetReq(<<Param(P1, TRUE), Param(P2, TRUE)>>), SetReq(<<Param(P1, FALSE)>>)),
      \* the controller: a set batch and a get batch
      Scenario(Cfg(TRUE, 2, TRUE, FALSE), <<0, 0>>, Camera({ERROR, COMPLETION, VALUE7}, FALSE, FALSE), "async",
               SetReq(<<Param(P1, TRUE), Param(P2, TRUE)>>), GetReq),
      \* the controller with rate limiters and a single slot
      Scenario(Cfg(TRUE, 1, FALSE, TRUE), <<0, 0>>, Camera({ACK, COMPLETION}, TRUE, FALSE), "async",
               SetReq(<<Param(P1, TRUE)>>), GetReq),
      \* the controller from four and from three slots: batches that fail at once
      Scenario(Cfg(TRUE, 4, TRUE, FALSE), <<0, 0>>, Camera({COMPLETION}, TRUE, FALSE), "async",
               SetReq(<<Param(P1, FALSE)>>), SetReq(<<Param(P2, FALSE), Param("Bogus", TRUE)>>)),
      \* the controller from four slots: two batches that each halve the limit
      Scenario(Cfg(TRUE, 4, TRUE, FALSE), <<0, 0>>, Camera({COMPLETION}, FALSE, FALSE), "async",
               SetReq(<<Param(P1, FALSE)>>), SetReq(<<Param(P2, FALSE)>>)),
      Scenario(Cfg(TRUE, 3, TRUE, FALSE), <<0, 0>>, Camera({COMPLETION}, TRUE, FALSE), "async",
               SetReq(<<Param(P1, FALSE), Param(P2, TRUE)>>), SetReq(<< >>)),
      \* no controller: two set batches, one with an unknown name
      Scenario(Cfg(FALSE, 1, FALSE, FALSE), <<0, 0>>, Camera({ACK, ERROR, COMPLETION}, FALSE, FALSE), "async",
               SetReq(<<Param(P1, TRUE), Param("Bogus", TRUE), Param(P2, TRUE)>>), SetReq(<<ParamV(P1, 255)>>)),
      \* one set command, every kind of reply, stale datagrams, the counter wrapping
      Scenario(Cfg(FALSE, 1, FALSE, FALSE), Wrap, Camera(ReplyPayloads, TRUE, TRUE), "async",
               SetReq(<<Param(P1, TRUE)>>), NoReq),
      \* the synchronous path
      Scenario(Cfg(FALSE, 1, FALSE, FALSE), <<0, 0>>, Camera({ACK, COMPLETION}, TRUE, FALSE), "sync",
               SyncSetReq(<<Param(P1, TRUE), Param("Bogus", TRUE), Param(P2, TRUE)>>), SyncSetReq(<<Param(P2, FALSE)>>)),
      Scenario(Cfg(FALSE, 1, FALSE, FALSE), Wrap, Camera({COMPLETION, VALUE7, BADHEADER}, TRUE, FALSE), "sync",
               SyncGetReq, SyncSetReq(<<Param(P1, TRUE)>>)),
      \* no controller: a get batch, replies with a bad header
      Scenario(Cfg(FALSE, 1, FALSE, FALSE), <<0, 0>>, Camera({COMPLETION, VALUE7, BADHEADER}, FALSE, FALSE), "async",
               GetReq, NoReq),
      \* an application that connects and disconnects at any time
      Scenario(Cfg(FALSE, 1, FALSE, FALSE), <<0, 0>>, Camera({ACK, COMPLETION}, TRUE, FALSE), "free",
               SetReq(<<Param(P1, TRUE)>>), NoReq) }

-----------------------------------------------------------------------------
(* The session after __init__ *)

\* VISCAProtocol.__init__ in the run sc
SessionInit(sc) ==
    /\ connected = FALSE
    /\ socket = FALSE
    /\ transport = FALSE
    /\ sequence_number = sc.seq0
    /\ command_futures = EmptyTable
    /\ trk = [c \in Cmds |-> NoTracker]
    /\ concurrency_semaphore = <<[value |-> sc.config.max_concurrent, waiters |-> << >>]>>
    /\ current_concurrency_limit = sc.config.max_concurrent
    /\ success_count = 0
    /\ failure_count = 0
    /\ config = sc.config
    /\ cmd = [c \in Cmds |-> IdleCmd]
    /\ batch = [b \in Batches |-> IdleBatch]
    /\ req = sc.req
    /\ sockbuf = << >>
    /\ camera = sc.camera
    /\ caller = sc.caller
    /\ hist = [stale |-> FALSE, late |-> FALSE, completed |-> {}, last_call |-> "none", misattributed |-> FALSE, sync_sent |-> {}, own |-> {},
               assigned |-> {}, packets |-> 0,
               tokens |-> [set |-> 0, get |-> 0], commands |-> [set |-> 0, get |-> 0],
               unread |-> {}, replied |-> {}, malformed |-> FALSE, left_open |-> FALSE]

\* max_requests_per_second when the configuration does not give it
max_rps == 10

Init ==
    \E sc \in Scenarios :
      /\ SessionInit(sc)
      /\ limiter = RateLimiter(max_rps, 0)

-----------------------------------------------------------------------------
(* Actions: one per callback or task step of the event loop *)

\* a synchronous call is running: it blocks the thread, and the event loop with it
SyncActive == \E b \in Batches : batch[b].pc = "sync"

\* the event loop gets to run a callback or a task step
LoopRuns == ~SyncActive

\* the application opens the session before its batch calls, unless it is one
\* that connects and disconnects whenever it likes
Opened == caller = "free" \/ connected

\* a caller awaits set_camera_params_async / get_camera_params_async
CallBatch(b) ==
    /\ LoopRuns
    /\ batch[b].pc = "idle"
    /\ Opened
    /\ req[b].kind \in {"set", "get"}
    /\ \E wait \in BOOLEAN : Becomes(Call(St, b, wait))

\* RateLimiter.acquire returns
RateLimitGrant(b) ==
    /\ LoopRuns
    /\ batch[b].pc = "rate_limit"
    /\ Becomes(Dispatch(Granted(St, b), b))

\* the batch's new tasks get their first turn
TasksStart(b) ==
    /\ LoopRuns
    /\ batch[b].pc = "spawned"
    /\ Becomes(RunTasks([St EXCEPT !.batch[b].pc = "gather"], b, TaskItems(St, b)))

\* asyncio.gather has every result
GatherDone(b) ==
    /\ LoopRuns
    /\ batch[b].pc = "gather"
    /\ \A k \in 1..Len(req[b].items) : cmd[<<b, k>>].pc \in {"none", "done", "cancelled"}
    /\ Becomes(Gathered(St, b))

\* asyncio.Semaphore wakes its first waiter
SemWake(c) ==
    /\ LoopRuns
    /\ cmd[c].pc = "sem_wait"
    /\ \E k \in 1..Len(concurrency_semaphore) :
         /\ concurrency_semaphore[k].value > 0
         /\ concurrency_semaphore[k].waiters # << >>
         /\ Head(concurrency_semaphore[k].waiters) = c
         /\ Becomes(Acquired([St EXCEPT !.concurrency_semaphore[k].value = @ - 1,
                                        !.concurrency_semaphore[k].waiters = Tail(@),
                                        !.cmd[c].sem = k], c))

\* asyncio.sleep(concurrent_pacing) is over
PacingWake(c) ==
    /\ LoopRuns
    /\ cmd[c].pc = "pacing"
    /\ Becomes(Body(St, c))

\* wait_for_ack returns the first reply
AckArrived(c) ==
    /\ LoopRuns
    /\ cmd[c].pc = "wait_ack"
    /\ trk[c].ack_future = "result"
    /\ Becomes(AckResult(St, c))

\* wait_for_ack: the timeout of asyncio.wait_for expires; it cancels the future it
\* waits on, and the waiting task is scheduled to resume with TimeoutError
AckTimerFires(c) ==
    /\ LoopRuns
    /\ cmd[c].pc = "wait_ack"
    /\ trk[c].ack_future = "pending"
    /\ camera.lossy
    /\ Becomes(WaitForExpired(St, c, "ack_timeout"))

\* wait_for_ack raises TimeoutError in the task
AckTimedOut(c) ==
    /\ LoopRuns
    /\ cmd[c].pc = "ack_timeout"
    /\ Becomes(AckTimeout(St, c))

\* the awaited future was cancelled: CancelledError leaves the coroutine
WaitCancelled(c) ==
    \/ /\ LoopRuns
       /\ cmd[c].pc = "wait_ack"
       /\ trk[c].ack_future = "cancelled"
       /\ Becomes(Finish(St, c, "cancelled", FALSE, None))
    \/ /\ LoopRuns
       /\ cmd[c].pc = "wait_completion"
       /\ trk[c].completion_future = "cancelled"
       /\ Becomes(SetReturn(St, c, "cancelled", FALSE))

\* asyncio.sleep(v_cycle) is over: the next attempt
VCycleWake(c) ==
    /\ LoopRuns
    /\ cmd[c].pc = "v_sleep"
    /\ Becomes(SendAttempt(St, c, cmd[c].attempt + 1))

\* wait_for_completion returns
CompletionArrived(c) ==
    /\ LoopRuns
    /\ cmd[c].pc = "wait_completion"
    /\ trk[c].completion_future = "result"
    /\ Becomes(CompletionResult(St, c))

\* wait_for_completion: the timeout of asyncio.wait_for expires
CompletionTimerFires(c) ==
    /\ LoopRuns
    /\ cmd[c].pc = "wait_completion"
    /\ trk[c].completion_future = "pending"
    /\ camera.lossy
    /\ Becomes(WaitForExpired(St, c, "completion_timeout"))

\* wait_for_completion raises TimeoutError in the task
CompletionTimedOut(c) ==
    /\ LoopRuns
    /\ cmd[c].pc = "completion_timeout"
    /\ Becomes(CompletionTimeout(St, c))

\* asyncio.sleep(sequential_pacing) is over
FallbackPaceWake(b) ==
    /\ LoopRuns
    /\ batch[b].pc = "fb_pace"
    /\ Becomes(FallbackDispatch(St, b))

\* asyncio.sleep(retry_delay_pacing) is over
FallbackDelayWake(b) ==
    /\ LoopRuns
    /\ batch[b].pc = "fb_delay"
    /\ Becomes(_retry_sequential_next(St, b))

\* the event loop hands a datagram to the protocol
\* a datagram with this sequence number answers an attempt that is no longer in
\* the table, and arrives while a later attempt waits for its reply
LateReply(seq) ==
    /\ seq \in hist.assigned \ DOMAIN command_futures
    /\ \E c \in Cmds :
         /\ cmd[c].attempt >= 1
         /\ trk[c].sequence_number \in DOMAIN command_futures
         /\ trk[c].ack_future = "pending"

\* the parameter (batch and item) whose command is registered under the
\* sequence number of this datagram, if the datagram carries a reply with
\* header 0x90 and class 0x5z
CompletedBy(data) ==
    IF /\ Len(data) > 8
       /\ Decode(data).sequence_number \in DOMAIN command_futures
       /\ Len(Decode(data).visca_payload) >= 2
       /\ Decode(data).visca_payload[1] = 144
       /\ AndF0(Decode(data).visca_payload[2]) = 80
    THEN LET c == command_futures[Decode(data).sequence_number]
         IN {<<c[1], cmd[c].item>>}
    ELSE {}

Receive ==
    /\ LoopRuns
    /\ transport
    /\ \E seq \in ProbeSeqs \cup hist.assigned, payload \in camera.payloads :
         \E data \in Cuts(Datagram(seq, payload)) :
           /\ seq \in DOMAIN command_futures \/ camera.stale
           /\ Len(data) > 8 \/ camera.stale
           /\ Becomes([datagram_received(St, data)
                      EXCEPT !.hist.stale = @ \/ seq \notin DOMAIN command_futures,
                             !.hist.late = @ \/ LateReply(seq),
                             !.hist.completed = @ \cup CompletedBy(data),
                             !.hist.malformed = @ \/ (Len(data) < 8 /\ DOMAIN command_futures # {})])

\* a caller calls set_camera_params / get_camera_params
SyncCall(b) ==
    /\ ~SyncActive
    /\ batch[b].pc = "idle"
    /\ Opened
    /\ req[b].kind \in {"sync_set", "sync_get"}
    /\ Becomes(SyncEnter(St, b))

\* socket.recvfrom returns the oldest buffered datagram, or times out on an empty buffer
SyncRecv(b) ==
    /\ cmd[<<b, 0>>].pc = "sync_recv"
    /\ sockbuf # << >> \/ camera.lossy
    /\ IF sockbuf # << >>
       THEN Becomes(SyncReceived([St EXCEPT !.sockbuf = Tail(@)], b, Head(sockbuf)))
       ELSE Becomes(SyncNextAttempt(St, b))

\* time.sleep(v_cycle) is over: the next attempt
SyncSleepWake(b) ==
    /\ cmd[<<b, 0>>].pc = "sync_sleep"
    /\ Becomes(SyncAttempt(St, b, cmd[<<b, 0>>].attempt + 1))

\* the recvfrom for the completion returns or times out
SyncRecvCompletion(b) ==
    /\ cmd[<<b, 0>>].pc = "sync_recv_completion"
    /\ sockbuf # << >> \/ camera.lossy
    /\ IF sockbuf # << >>
       THEN Becomes(SyncCompletionReceived([St EXCEPT !.sockbuf = Tail(@)], b, Head(sockbuf)))
       ELSE Becomes(SyncLoop(St, b))

\* the camera's reply to a packet sent on the synchronous socket reaches the socket
SyncCameraReply ==
    /\ socket
    /\ Len(sockbuf) < MaxBuf
    /\ \E seq \in hist.sync_sent, payload \in camera.payloads :
         sockbuf' = Append(sockbuf, Datagram(seq, payload))
    /\ UNCHANGED <<connected, socket, transport, sequence_number, command_futures, trk,
                   concurrency_semaphore, current_concurrency_limit, success_count,
                   failure_count, config, cmd, batch, req, camera, caller, hist, limiter>>

\* VISCAProtocol.connect
connect ==
    /\ LoopRuns
    /\ caller = "free" \/ (caller = "sync" /\ ~connected)
    /\ IF ~socket THEN socket' = TRUE /\ connected' = TRUE
       ELSE UNCHANGED <<socket, connected>>
    /\ hist' = [hist EXCEPT !.last_call = "connect"]
    /\ UNCHANGED <<transport, sequence_number, command_futures, trk, concurrency_semaphore,
                   current_concurrency_limit, success_count, failure_count, config, cmd,
                   batch, req, sockbuf, camera, caller, limiter>>

\* VISCAProtocol.connect_async
connect_async ==
    /\ LoopRuns
    /\ caller = "free" \/ (caller = "async" /\ ~connected)
    /\ IF ~transport THEN transport' = TRUE /\ connected' = TRUE
       ELSE UNCHANGED <<transport, connected>>
    /\ hist' = [hist EXCEPT !.last_call = "connect_async"]
    /\ UNCHANGED <<socket, sequence_number, command_futures, trk, concurrency_semaphore,
                   current_concurrency_limit, success_count, failure_count, config, cmd,
                   batch, req, sockbuf, camera, caller, limiter>>

\* VISCAProtocol.disconnect
disconnect ==
    /\ LoopRuns
    /\ caller = "free"
    /\ socket' = FALSE
    /\ sockbuf' = << >>
    /\ connected' = FALSE
    /\ hist' = [hist EXCEPT !.last_call = "disconnect"]
    /\ UNCHANGED <<transport, sequence_number, command_futures, trk, concurrency_semaphore,
                   current_concurrency_limit, success_count, failure_count, config, cmd,
                   batch, req, camera, caller, limiter>>

\* VISCAProtocol.disconnect_async
disconnect_async ==
    /\ LoopRuns
    /\ caller = "free"
    /\ transport' = FALSE
    /\ connected' = FALSE
    /\ hist' = [hist EXCEPT !.last_call = "disconnect_async"]
    /\ UNCHANGED <<socket, sequence_number, command_futures, trk, concurrency_semaphore,
                   current_concurrency_limit, success_count, failure_count, config, cmd,
                   batch, req, sockbuf, camera, caller, limiter>>

LoopStep ==
    \/ \E b \in Batches : CallBatch(b)
    \/ \E b \in Batches : RateLimitGrant(b)
    \/ \E b \in Batches : TasksStart(b)
    \/ \E b \in Batches : GatherDone(b)
    \/ \E c \in Cmds : SemWake(c)
    \/ \E c \in Cmds : PacingWake(c)
    \/ \E c \in Cmds : AckArrived(c)
    \/ \E c \in Cmds : AckTimerFires(c)
    \/ \E c \in Cmds : AckTimedOut(c)
    \/ \E c \in Cmds : WaitCancelled(c)
    \/ \E c \in Cmds : VCycleWake(c)
    \/ \E c \in Cmds : CompletionArrived(c)
    \/ \E c \in Cmds : CompletionTimerFires(c)
    \/ \E c \in Cmds : CompletionTimedOut(c)
    \/ \E b \in Batches : FallbackPaceWake(b)
    \/ \E b \in Batches : FallbackDelayWake(b)
    \/ Receive

SyncStep ==
    \/ \E b \in Batches : SyncCall(b)
    \/ \E b \in Batches : SyncRecv(b)
    \/ \E b \in Batches : SyncSleepWake(b)
    \/ \E b \in Batches : SyncRecvCompletion(b)
    \/ SyncCameraReply

Lifecycle ==
    \/ connect
    \/ connect_async
    \/ disconnect
    \/ disconnect_async

Next ==
    \/ LoopStep
    \/ SyncStep
    \/ Lifecycle

Spec == Init /\ [][Next]_vars

\* a step of a task or of a timer of the event loop: everything the loop runs by
\* itself once it is due, as opposed to a caller's call or a datagram's arrival
TaskStep ==
    \/ \E b \in Batches : RateLimitGrant(b) \/ TasksStart(b) \/ GatherDone(b)
                              \/ FallbackPaceWake(b) \/ FallbackDelayWake(b)
    \/ \E c \in Cmds : SemWake(c) \/ PacingWake(c) \/ AckArrived(c) \/ AckTimerFires(c)
                          \/ AckTimedOut(c) \/ WaitCancelled(c) \/ VCycleWake(c)
                          \/ CompletionArrived(c) \/ CompletionTimerFires(c)
                          \/ CompletionTimedOut(c)

\* the sessions the fair specification starts from: a camera that may never
\* reply to a set and a get batch, a batch whose fallback runs while a get batch
\* starts, the sync path, and the lifecycle calls
FairScenarios ==
    { Scenario(Cfg(TRUE, 1, FALSE, TRUE), <<0, 0>>, Camera({ACK, COMPLETION}, TRUE, FALSE), "async",
               SetReq(<<Param(P1, TRUE)>>), GetReq),
      Scenario(Cfg(TRUE, 2, TRUE, FALSE), <<0, 0>>, Camera({ERROR}, FALSE, FALSE), "async",
               SetReq(<<Param(P1, TRUE), Param(P2, TRUE)>>), GetReq),
      Scenario(Cfg(FALSE, 1, FALSE, FALSE), <<0, 0>>, Camera({ACK, COMPLETION}, TRUE, FALSE), "sync",
               SyncSetReq(<<Param(P1, TRUE), Param("Bogus", TRUE), Param(P2, TRUE)>>),
               SyncSetReq(<<Param(P2, FALSE)>>)),
      Scenario(Cfg(FALSE, 1, FALSE, FALSE), <<0, 0>>, Camera({ACK, COMPLETION}, TRUE, FALSE), "free",
               SetReq(<<Param(P1, TRUE)>>), NoReq) }

InitFair ==
    \E sc \in FairScenarios :
      /\ SessionInit(sc)
      /\ limiter = RateLimiter(max_rps, 0)

\* the session under the asyncio event loop: a task that can run and a timer
\* that is due are eventually run, and a datagram of a camera that loses none
\* is eventually delivered; a lossy camera is free never to reply
SpecFair ==
    /\ InitFair /\ [][Next]_vars
    /\ WF_vars(TaskStep)
    /\ WF_vars(~camera.lossy /\ Receive)

-----------------------------------------------------------------------------
(* One RateLimiter on its own: callers, the lock, the sleep and the clock.  *)
(* A clock tick is long against the event loop's latency: the clock moves   *)
(* only when no task is ready to run.                                       *)

\* the rates of the runs; 5 is the rate of the documented example
Rates == {1, 2, 5}

\* a session that goes through its limiters
LimiterScenario ==
    Scenario(Cfg(TRUE, 1, FALSE, TRUE), <<0, 0>>, Camera({ACK, COMPLETION}, TRUE, FALSE), "async",
             NoReq, NoReq)

InitLimiter ==
    /\ SessionInit(LimiterScenario)
    /\ \E rate \in Rates : limiter = RateLimiter(rate, 0)

\* a caller awaits acquire(): it takes a free lock at once, or queues for it
AcquireCalled ==
    /\ Len(limiter.calls) < MaxCalls
    /\ LET i == Len(limiter.calls) + 1
           L == [limiter EXCEPT !.calls = Append(@, NewCall(limiter.now))]
       IN limiter' = IF ~limiter.locked /\ LockWaiters(limiter) = {} THEN acquire(L, i) ELSE L
    /\ UNCHANGED session_vars

\* asyncio.Lock hands the released lock to its first waiter
LockAcquired ==
    /\ ~limiter.locked
    /\ LockWaiters(limiter) # {}
    /\ limiter' = acquire(limiter, CHOOSE i \in LockWaiters(limiter) :
                                     \A j \in LockWaiters(limiter) : i <= j)
    /\ UNCHANGED session_vars

\* asyncio.sleep(wait_time) is over
SleepOver ==
    /\ \E i \in 1..Len(limiter.calls) :
         /\ limiter.calls[i].pc = "sleep"
         /\ limiter.now >= limiter.calls[i].wake
         /\ limiter' = acquire_resumed(limiter, i)
    /\ UNCHANGED session_vars

\* a task is ready to run
Ready ==
    \/ ~limiter.locked /\ LockWaiters(limiter) # {}
    \/ \E i \in 1..Len(limiter.calls) :
         limiter.calls[i].pc = "sleep" /\ limiter.now >= limiter.calls[i].wake

\* time passes
Tick ==
    /\ limiter.now < MaxTime
    /\ ~Ready
    /\ limiter' = [limiter EXCEPT !.now = @ + 1]
    /\ UNCHANGED session_vars

NextLimiter ==
    \/ AcquireCalled
    \/ LockAcquired
    \/ SleepOver
    \/ Tick

SpecLimiter == InitLimiter /\ [][NextLimiter]_vars

-----------------------------------------------------------------------------
(* Properties *)

\* the commands that were admitted (hold a slot, or run in the sequential fallback)
\* and have not finished
Admitted ==
    {c \in Cmds : cmd[c].pc \in {"pacing", "wait_ack", "ack_timeout", "v_sleep",
                                 "wait_completion", "completion_timeout"}}

\* the commands waiting for a reply to a packet
InFlight(c) == cmd[c].pc \in {"wait_ack", "ack_timeout", "wait_completion", "completion_timeout"}

\* the tracker of sequence number seq in the router table
Registered(seq) == trk[command_futures[seq]]

\* C1: with concurrency control enabled, the commands admitted and not yet finished,
\* over all batches of the session, are never more than current_concurrency_limit.
C1_AdmittedWithinLimit ==
    config.concurrency_enabled => Cardinality(Admitted) <= current_concurrency_limit

\* C2: the router table holds each command's tracker under that tracker's own
\* sequence number, two commands in flight never carry the same sequence number,
\* and all the sequence numbers assigned so far (every attempt of every command)
\* are pairwise distinct.
C2_SequenceUnique ==
    /\ \A seq \in DOMAIN command_futures : Registered(seq).sequence_number = seq
    /\ \A c1, c2 \in Cmds :
         (c1 # c2 /\ InFlight(c1) /\ InFlight(c2))
            => trk[c1].sequence_number # trk[c2].sequence_number
    /\ Cardinality(hist.assigned) = hist.packets

\* two commands are in flight at once, one of them on a retry, both registered
C2_Witness ==
    \E c1, c2 \in Cmds :
      /\ c1 # c2 /\ InFlight(c1) /\ InFlight(c2)
      /\ cmd[c1].attempt > 0
      /\ Cardinality(DOMAIN command_futures) >= 2

IsAckClass(payload) == Len(payload) >= 2 /\ payload[1] = 144 /\ AndF0(payload[2]) = 64

\* C3: a tracker that expects a completion and has received only an ACK-class reply is
\* not complete and is still in the router table; it becomes complete only in a step
\* that routes a completion-class reply with its sequence number to it.
C3_TwoPhase ==
    /\ [](\A c \in Cmds :
            (/\ trk[c].expect_completion
             /\ trk[c].ack_future = "result" /\ IsAckClass(trk[c].ack_payload)
             /\ trk[c].completion_future = "pending")
            => /\ ~is_complete(trk[c])
               /\ trk[c].sequence_number \in DOMAIN command_futures
               /\ command_futures[trk[c].sequence_number] = c)
    /\ [][\A c \in Cmds :
            (trk[c].expect_completion /\ ~is_complete(trk[c]) /\ is_complete(trk'[c]))
            => \E payload \in camera.payloads :
                 /\ _is_completion(payload)
                 /\ trk[c].sequence_number \in DOMAIN command_futures
                 /\ command_futures[trk[c].sequence_number] = c
                 /\ Becomes([datagram_received(St, Datagram(trk[c].sequence_number, payload))
                               EXCEPT !.hist.completed =
                                        @ \cup CompletedBy(Datagram(trk[c].sequence_number, payload))])]_vars

\* a tracker completed in two phases: an ACK first, then a completion
C3_Witness ==
    \E c \in Cmds :
      /\ trk[c].expect_completion /\ is_complete(trk[c])
      /\ IsAckClass(trk[c].ack_payload)
      /\ _is_completion(trk[c].completion_payload)

\* C4: routing a datagram whose sequence number is not in the router table leaves the
\* table and every tracker unchanged, whatever the table holds and whatever the payload.
C4_UnknownSequenceDiscarded ==
    \A seq \in ProbeSeqs \ DOMAIN command_futures, payload \in ReplyPayloads :
      LET S == datagram_received(St, Datagram(seq, payload))
      IN S.command_futures = command_futures /\ S.trk = trk

\* a stale datagram was routed, and a tracker is registered and pending
C4_Witness ==
    /\ hist.stale
    /\ \E seq \in DOMAIN command_futures : Registered(seq).ack_future = "pending"

\* C5: on every path a reply is taken as the reply to a command only if its datagram
\* carried the sequence number of that command's own packet.
C5_OnlyOwnSequence ==
    /\ ~hist.misattributed
    /\ \A seq \in DOMAIN command_futures : Registered(seq).sequence_number = seq

\* C6: the router table never holds a tracker that is complete, timed out or cancelled.
C6_NoTerminalTrackerInTable ==
    \A seq \in DOMAIN command_futures : ~Terminal(Registered(seq))

\* C7: when disconnect or disconnect_async returns, the router table is empty and no
\* tracker is left pending.
C7_DisconnectCancelsAll ==
    [][(connected /\ ~connected')
         => /\ DOMAIN command_futures' = {}
            /\ \A c \in Cmds : /\ trk'[c].ack_future # "pending"
                               /\ trk'[c].completion_future # "pending"]_vars

\* the events ev of batch b's fallback, in order, as the items they concern
Events(b, ev) ==
    LET hits == SelectSeq(batch[b].trace, LAMBDA e : e.ev = ev)
    IN [i \in 1..Len(hits) |-> hits[i].item]

\* C8: a controlled set batch whose failures are more than half of its parameters, at a
\* limit above 1, halves the limit (floor 1) and re-issues its failed items one after
\* the other: each after a pacing delay, each failure followed by a further delay.
C8_HalveAndRetrySequentially ==
    /\ [](\A b \in Batches :
            (batch[b].failed_params # << >> /\ batch[b].pc \in {"done", "raised"})
            => /\ Events(b, "dispatch") = batch[b].failed_params
               /\ Events(b, "sequential_pacing") = batch[b].failed_params)
    /\ [][\A b \in Batches :
            (batch[b].failed_params = << >> /\ batch'[b].failed_params # << >>)
            => /\ current_concurrency_limit > 1
               /\ current_concurrency_limit' =
                    (IF current_concurrency_limit \div 2 >= 1
                     THEN current_concurrency_limit \div 2 ELSE 1)]_vars

AnySet(b) ==
    \/ Succeeded(St, b) # {}
    \/ batch[b].retry > 0
    \/ batch[b].succ > 0

\* C10: a non-empty set batch returns true whenever at least one of its parameters was
\* set, and false only when none was.
C10_PartialSuccess ==
    \A b \in Batches :
      (/\ req[b].kind \in {"set", "sync_set"} /\ req[b].items # << >>
       /\ batch[b].pc \in {"done", "raised"})
      => /\ AnySet(b) => batch[b].ret = "True"
         /\ batch[b].ret = "False" => ~AnySet(b)

\* the acquire() calls that returned at a time from t1 to t2
Completed(t1, t2) ==
    {i \in 1..Len(limiter.calls) :
        /\ limiter.calls[i].pc = "done"
        /\ t1 <= limiter.calls[i].done /\ limiter.calls[i].done <= t2}

\* C18: in every time window of length T at most R + R*T acquire() calls return (in
\* ticks and token units: Res * calls <= Res * R + ticks), and the pool stays
\* within 0..R.
C18_RateBound ==
    /\ 0 <= limiter.tokens /\ limiter.tokens <= limiter.max_requests * Res
    /\ \A t1, t2 \in 0..limiter.now :
         t1 <= t2 =>
           Res * Cardinality(Completed(t1, t2)) <= Res * limiter.max_requests + (t2 - t1)

\* C19: from a full pool of R tokens the first R acquire() calls return without
\* suspending, whenever they are made; a call R+1 made less than 1/R second after
\* the first suspends for the time the pool lacks to one token, and returns 1/R
\* second (Res ticks) after the first call.
C19_BurstThenWait ==
    LET calls == limiter.calls
        R == limiter.max_requests
    IN /\ \A i \in 1..Len(calls) :
            i <= R => /\ calls[i].pc = "done" /\ ~calls[i].slept
                      /\ calls[i].done = calls[i].called
       /\ (Len(calls) > R /\ calls[R + 1].called - calls[1].called < Res)
            => /\ calls[R + 1].slept
               /\ calls[R + 1].wake = calls[1].called + Res
               /\ calls[R + 1].wake - calls[R + 1].called
                     = Res - (calls[R + 1].called - calls[1].called)
               /\ calls[R + 1].pc = "done" => calls[R + 1].done = calls[R + 1].wake

\* with R = 5, six calls made at once: the sixth returned 1/5 second after the fifth
C19_Witness ==
    LET calls == limiter.calls
    IN /\ limiter.max_requests = 5 /\ Len(calls) >= 6
       /\ calls[6].called = calls[1].called
       /\ calls[6].pc = "done"
       /\ calls[6].done - calls[5].done = Res

\* C11: no batch call ends by raising, and a batch that returned has run the command
\* of every parameter it knows to its end.
C11_BatchAlwaysReturns ==
    \A b \in Batches :
      /\ batch[b].pc # "raised"
      /\ (batch[b].pc = "done" /\ req[b].kind \in {"set", "get"} /\ batch[b].ret # "none"
             /\ TaskItems(St, b) # << >>)
           => \A k \in 1..Len(req[b].items) :
                Known(req[b].items[k].name) => cmd[<<b, k>>].pc \in {"done", "cancelled"}

\* C12: one dispatch never sends more than max_attempts packets; an attempt whose
\* wait for the first reply timed out is followed, after the v_cycle sleep, by the
\* next packet while attempts are left; after the last attempt the command ends as a
\* failure, having sent exactly max_attempts packets (on a session the application
\* keeps open).
C12_RetryUpToMaxAttempts ==
    /\ [](\A c \in Cmds : cmd[c].sent <= max_attempts /\ cmd[c].attempt < max_attempts)
    /\ [][\A c \in Cmds :
            (cmd[c].pc = "ack_timeout" /\ cmd'[c] # cmd[c])
            => IF cmd[c].attempt < max_attempts - 1
               THEN cmd'[c].pc = "v_sleep" /\ cmd'[c].sent = cmd[c].sent
               ELSE /\ cmd'[c].pc = "done" /\ ~cmd'[c].ok
                    /\ caller # "free" => cmd[c].sent = max_attempts]_vars
    /\ [][\A c \in Cmds :
            (cmd[c].pc = "v_sleep" /\ cmd'[c] # cmd[c] /\ transport)
            => /\ cmd'[c].pc = "wait_ack"
               /\ cmd'[c].attempt = cmd[c].attempt + 1
               /\ cmd'[c].sent = cmd[c].sent + 1]_vars

\* the last attempt of a command has timed out, every attempt unanswered
C12_Witness ==
    \E c \in Cmds :
      /\ cmd[c].pc = "ack_timeout"
      /\ cmd[c].attempt = max_attempts - 1
      /\ cmd[c].sent = max_attempts

\* C13: a set command whose wait for the completion timed out is sent again while
\* attempts are left, and is reported failed only after the last attempt.
C13_CompletionTimeoutRetried ==
    [][\A c \in Cmds :
         (cmd[c].pc = "completion_timeout" /\ cmd'[c] # cmd[c])
         => IF cmd[c].attempt < max_attempts - 1
            THEN cmd'[c].pc \in {"v_sleep", "wait_ack"}
            ELSE cmd'[c].pc = "done" /\ ~cmd'[c].ok]_vars

\* C14: while the session is not connected no command sends a packet, and a command
\* in its retry loop makes no further attempt.
C14_FatalAbortsWithoutRetry ==
    [][\A c \in Cmds :
         ~is_connected(St)
         => /\ cmd'[c].sent <= cmd[c].sent
            /\ cmd[c].pc = "v_sleep" => cmd'[c].attempt <= cmd[c].attempt]_vars

\* item k of batch b has an unknown name or a value that is not an integer
Rejected(b, k) == ~Known(req[b].items[k].name) \/ ~req[b].items[k].value.isint

\* C15: a set item with an unknown name or a non-integer value sends no packet, gets
\* no tracker, is never dispatched by the sequential fallback, and is not a success.
C15_RejectedAtOnce ==
    \A b \in Batches : \A k \in 1..Len(req[b].items) :
      (req[b].kind \in {"set", "sync_set"} /\ Rejected(b, k))
      => /\ cmd[<<b, k>>].sent = 0 /\ trk[<<b, k>>] = NoTracker
         /\ cmd[<<b, 0>>].item = k => (cmd[<<b, 0>>].sent = 0 /\ trk[<<b, 0>>] = NoTracker)
         /\ k \notin Succeeded(St, b)
         /\ \A i \in 1..Len(Events(b, "dispatch")) : Events(b, "dispatch")[i] # k

\* C16: a get batch never ends by raising, and its map has no entry for a parameter
\* whose inquiry got no reply or a reply that is not one of the two known shapes.
C16_UnreadValueAbsent ==
    \A b \in Batches :
      req[b].kind \in {"get", "sync_get"}
      => /\ batch[b].pc # "raised"
         /\ \A k \in 1..Len(req[b].items) :
              <<b, req[b].items[k].name>> \in hist.unread
                => req[b].items[k].name \notin DOMAIN batch[b].config_dict

\* C17: with the controller and the rate limiter of a class enabled, the commands of
\* that class sent so far are never more than the tokens its limiter has granted.
C17_TokenPerCommand ==
    config.concurrency_enabled
    => /\ config.rate_limit_set => hist.commands["set"] <= hist.tokens["set"]
       /\ config.rate_limit_get => hist.commands["get"] <= hist.tokens["get"]

\* the payloads the session encodes: every inquiry, and every set command with a value
ValidPayloads ==
    {_create_visca_packet(command_map[i].inquiry, NoValue) : i \in 1..Len(command_map)}
      \cup {_create_visca_packet(command_map[i].set, Value(v)) :
               i \in 1..Len(command_map), v \in {0, 9, 255}}

\* n + 1 modulo 2^32 on <<hi, lo>>, case by case
PlusOne(n) ==
    IF n = <<Half - 1, Half - 1>> THEN <<0, 0>>
    ELSE IF n[2] = Half - 1 THEN <<n[1] + 1, 0>>
    ELSE <<n[1], n[2] + 1>>

\* C20: whatever the counter is, decoding the packet encode builds for a valid
\* payload gives back the payload and the counter plus one modulo 2^32 (which is
\* also the new counter), and the header's length field is the payload's length.
C20_RoundTrip ==
    \A payload \in ValidPayloads :
      LET built == _build_visca_ip_packet(sequence_number, payload)
          read == Decode(built.packet)
      IN /\ read.visca_payload = payload
         /\ read.sequence_number = PlusOne(sequence_number)
         /\ built.sequence_number = read.sequence_number
         /\ Slice(built.packet, 3, 4) = PackH(Len(payload))
         /\ Len(built.packet) = 8 + Len(payload)

\* the counter has wrapped: packets were built with 0xFFFFFFFF and then with 0
C20_Witness ==
    /\ <<Half - 1, Half - 1>> \in hist.assigned
    /\ <<0, 0>> \in hist.assigned
    /\ sequence_number[1] = 0

\* the template without its terminator, and the value bytes its length selects
Stripped(template) ==
    IF EndsWithFF(template) THEN SubSeq(template, 1, Len(template) - 1) ELSE template

ValueBytes(template, v) ==
    IF Len(template) = 7 THEN <<AndFF(v)>>
    ELSE IF Len(template) = 6 THEN <<And0F(v \div 16), And0F(v)>>
    ELSE <<IF v < 0 THEN 0 ELSE IF v > 15 THEN 15 ELSE v>>

\* C21: the payload of every set command that has been sent is its template without
\* a terminator, then the value bytes the template's length selects, then one 0xFF.
C21_SetPayload ==
    \A c \in Cmds :
      (cmd[c].sent > 0 /\ IsSet(St, c))
      => LET template == Stripped(Entry(Item(St, c).name).set)
             v == Item(St, c).value.v
         IN Command(St, c) = template \o ValueBytes(template, v) \o <<255>>

\* the two shapes of an inquiry reply
IsReply4(r) == Len(r) = 4 /\ r[1] = 144 /\ r[2] = 80 /\ r[4] = 255
IsReply7(r) == Len(r) = 7 /\ r[1] = 144 /\ r[2] = 80 /\ r[7] = 255

\* C22: on the synchronous, the uncontrolled and the controlled get path alike, a
\* reply 90 50 v FF handed to the parsing is stored as the decimal of v, and a reply
\* 90 50 p q r s FF as the decimal of ((p&0xF)<<12)|((q&0xF)<<8)|((r&0xF)<<4)|(s&0xF).
C22_ReplyDecoding ==
    \A rec \in hist.replied :
      LET b == rec[1]
          name == rec[2]
          r == rec[3]
      IN /\ IsReply4(r)
              => name \in DOMAIN batch[b].config_dict /\ batch[b].config_dict[name] = Str(r[3])
         /\ IsReply7(r)
              => /\ name \in DOMAIN batch[b].config_dict
                 /\ batch[b].config_dict[name]
                      = Str((r[3] % 16) * 4096 + (r[4] % 16) * 256 + (r[5] % 16) * 16 + (r[6] % 16))

\* a controlled get batch read 90 50 01 02 03 04 FF for one parameter and 90 50 0A FF
\* for another: its map holds "4660" and "10"
C22_Witness ==
    /\ config.concurrency_enabled
    /\ \E b \in Batches :
         /\ req[b].kind = "get"
         /\ <<b, P1, VALUE7>> \in hist.replied /\ <<b, P2, COMPLETION>> \in hist.replied
         /\ batch[b].config_dict = (P1 :> "4660" @@ P2 :> "10")

\* C23: in every state, a datagram shorter than the 8-byte header leaves the whole
\* session as it is: no tracker, no table entry and no command changes.
C23_ShortDatagramDiscarded ==
    \A seq \in ProbeSeqs, payload \in ReplyPayloads, n \in 0..7 :
      datagram_received(St, SubSeq(Datagram(seq, payload), 1, n)) = St

\* a short datagram arrived while a tracker was registered, and a command is still
\* waiting on its pending tracker
C23_Witness ==
    /\ hist.malformed
    /\ \E c \in Cmds :
         /\ cmd[c].pc = "wait_ack" /\ trk[c].ack_future = "pending"
         /\ trk[c].sequence_number \in DOMAIN command_futures

\* the state of a tracker: Stopped stands for TimedOut and Cancelled alike
TrackerState(t) ==
    IF t.ack_future = "cancelled" \/ t.completion_future = "cancelled" THEN "Stopped"
    ELSE IF is_complete(t) THEN "Completed"
    ELSE IF t.ack_future = "result" THEN "AckReceived"
    ELSE "Pending"

\* from state "from" a tracker may stay, or move forward to state "to"
Forward(from, to) ==
    \/ from = to
    \/ from = "Pending" /\ to \in {"AckReceived", "Completed", "Stopped"}
    \/ from = "AckReceived" /\ to \in {"Completed", "Stopped"}

\* C24: as long as a command's tracker is the same object, its state only moves
\* forward, a recorded ACK or completion result is never replaced, and once it is
\* Completed, TimedOut or Cancelled neither its state nor its results change.
C24_TrackerForwardOnly ==
    [][\A c \in Cmds :
         (/\ trk[c].ack_future # "none" /\ trk'[c].ack_future # "none"
          /\ trk'[c].sequence_number = trk[c].sequence_number)
         => /\ Forward(TrackerState(trk[c]), TrackerState(trk'[c]))
            /\ trk[c].ack_future = "result" => trk'[c].ack_payload = trk[c].ack_payload
            /\ trk[c].completion_future = "result"
                 => trk'[c].completion_payload = trk[c].completion_payload
            /\ Terminal(trk[c])
                 => /\ TrackerState(trk'[c]) = TrackerState(trk[c])
                    /\ trk'[c].ack_payload = trk[c].ack_payload
                    /\ trk'[c].completion_payload = trk[c].completion_payload]_vars

\* C25: no tracker has left the router table while it was not Completed, TimedOut or
\* Cancelled.
C25_RemovedOnlyWhenTerminal == ~hist.left_open

\* a completion-class reply 90 5z
IsCompletionClass(payload) == Len(payload) >= 3 /\ payload[1] = 144 /\ AndF0(payload[2]) = 80

\* C26: when the first reply routed to the pending tracker of a set command is of the
\* completion class, that step completes the tracker and removes it from the table,
\* and the command's next step ends it as successful, with no further wait.
C26_DirectCompletion ==
    /\ [][\A c \in Cmds :
            (/\ trk[c].expect_completion /\ trk[c].ack_future = "pending"
             /\ trk[c].completion_future = "pending"
             /\ trk'[c].sequence_number = trk[c].sequence_number
             /\ trk'[c].ack_future = "result" /\ IsCompletionClass(trk'[c].ack_payload))
            => /\ is_complete(trk'[c])
               /\ trk'[c].completion_payload = trk'[c].ack_payload
               /\ trk[c].sequence_number \notin DOMAIN command_futures'
               /\ cmd'[c] = cmd[c]]_vars
    /\ [][\A c \in Cmds :
            (/\ cmd[c].pc = "wait_ack" /\ trk[c].expect_completion
             /\ trk[c].ack_future = "result" /\ IsCompletionClass(trk[c].ack_payload)
             /\ cmd'[c] # cmd[c])
            => cmd'[c].pc = "done" /\ cmd'[c].ok]_vars

\* one datagram 90 50 0A FF has completed the tracker of a set command that was
\* waiting for its ACK; the tracker has left the table
C26_Witness ==
    \E c \in Cmds :
      /\ IsSet(St, c) /\ cmd[c].pc = "wait_ack"
      /\ trk[c].ack_payload = COMPLETION /\ trk[c].completion_payload = COMPLETION
      /\ is_complete(trk[c])
      /\ trk[c].sequence_number \notin DOMAIN command_futures

\* C27: the step in which a controlled batch, set or get, resumes after gather adds
\* the number of operations the batch dispatched to success_count + failure_count.
C27_CountersUpdated ==
    [][\A b \in Batches :
         (/\ config.concurrency_enabled /\ req[b].kind \in {"set", "get"}
          /\ batch[b].pc = "gather" /\ batch'[b].pc # "gather")
         => success_count' + failure_count'
              = success_count + failure_count + Len(TaskItems(St, b))]_vars

\* s is the beginning of t
IsPrefix(s, t) == Len(s) <= Len(t) /\ s = SubSeq(t, 1, Len(s))

\* the items of batch b dispatched concurrently whose task did not return True
NotSucceeded(b) ==
    {k \in 1..Len(req[b].items) :
       cmd[<<b, k>>].pc # "none" /\ ~(cmd[<<b, k>>].pc = "done" /\ cmd[<<b, k>>].ok)}

\* C28: the items a fallback re-dispatches are those of the batch that did not
\* succeed, in batch order; at every moment the re-dispatched ones are a beginning
\* of that list, a re-dispatch starts only when the previous one has returned, and
\* when the batch has ended every one of them has been re-dispatched exactly once.
C28_FallbackExactlyFailed ==
    /\ [](\A b \in Batches :
            /\ IsPrefix(Events(b, "dispatch"), batch[b].failed_params)
            /\ batch[b].pc \in {"done", "raised"}
                 => Events(b, "dispatch") = batch[b].failed_params)
    /\ [][\A b \in Batches :
            /\ (batch[b].failed_params = << >> /\ batch'[b].failed_params # << >>)
                 => /\ {batch'[b].failed_params[i] : i \in 1..Len(batch'[b].failed_params)}
                         = NotSucceeded(b)
                    /\ \A i, j \in 1..Len(batch'[b].failed_params) :
                         i < j => batch'[b].failed_params[i] < batch'[b].failed_params[j]
            /\ Len(Events(b, "dispatch")') > Len(Events(b, "dispatch"))
                 => /\ Len(Events(b, "dispatch")') = Len(Events(b, "dispatch")) + 1
                    /\ cmd[<<b, 0>>].pc \in {"none", "done"}]_vars

\* C29: no step raises current_concurrency_limit.
C29_LimitNeverIncreases ==
    [][current_concurrency_limit' <= current_concurrency_limit]_vars

\* after a halving from 2 to 1 a batch was dispatched under the new semaphore: one of
\* its commands has succeeded, the next holds the slot with its tracker complete
C29_Witness ==
    /\ config.max_concurrent = 2 /\ current_concurrency_limit = 1
    /\ \E b \in Batches :
         /\ cmd[<<b, 1>>].pc = "done" /\ cmd[<<b, 1>>].ok
         /\ cmd[<<b, 2>>].sem = 2 /\ is_complete(trk[<<b, 2>>])

RECURSIVE Capacity(_)
\* the slots of the i-th semaphore of the session: max_concurrent for the first, the
\* halved limit for each one that replaced it
Capacity(i) ==
    IF i = 1 THEN config.max_concurrent
    ELSE IF Capacity(i - 1) \div 2 >= 1 THEN Capacity(i - 1) \div 2 ELSE 1

\* the commands inside "async with self.concurrency_semaphore"
Running == {c \in Cmds : cmd[c].pc \notin {"none", "new", "sem_wait", "done", "cancelled"}}

\* C30: the slots taken from each semaphore are exactly those of the controlled
\* commands now running under it; a command that has ended, however it ended, holds
\* none, and when no controlled command is running every semaphore is full.
C30_SlotsReleased ==
    config.concurrency_enabled
    => /\ \A i \in 1..Len(concurrency_semaphore) :
            Capacity(i) - concurrency_semaphore[i].value
              = Cardinality({c \in Cmds : cmd[c].sem = i})
       /\ \A c \in Cmds : cmd[c].sem # 0 => c \in Running /\ c[2] # 0
       /\ (\A c \in Running : c[2] = 0)
            => \A i \in 1..Len(concurrency_semaphore) :
                 concurrency_semaphore[i].value = Capacity(i)

\* commands that held a slot have ended: one cancelled, one failed, one successful;
\* none is running and the semaphore is full
C30_Witness ==
    /\ config.concurrency_enabled
    /\ \E c \in Cmds : c[2] # 0 /\ cmd[c].pc = "cancelled"
    /\ \E c \in Cmds : c[2] # 0 /\ cmd[c].pc = "done" /\ cmd[c].ok
    /\ \E c \in Cmds : c[2] # 0 /\ cmd[c].pc = "done" /\ ~cmd[c].ok
    /\ Running = {}
    /\ \A i \in 1..Len(concurrency_semaphore) : concurrency_semaphore[i].value = Capacity(i)

\* no command waits for a concurrency slot
NoneWaiting == \A c \in Cmds : cmd[c].pc # "sem_wait"

\* under fair scheduling, from some moment on no command waits for a slot and
\* every asynchronous batch call that was made has ended, by returning or by
\* raising
EveryCallEnds ==
    <>[](/\ NoneWaiting
         /\ \A b \in Batches :
              req[b].kind \in {"set", "get"} => batch[b].pc \in {"idle", "done", "raised"})

\* C31: under fair scheduling, from some moment on no command waits for a
\* concurrency slot and every asynchronous batch call that was made has returned.
C31_NoStarvation ==
    <>[](/\ NoneWaiting
         /\ \A b \in Batches :
              req[b].kind \in {"set", "get"} => batch[b].pc \in {"idle", "done"})

\* the sequence numbers under which the table holds a tracker of command c
OwnSeqs(c) == {seq \in DOMAIN command_futures : command_futures[seq] = c}

\* C32: a command never has more than one tracker in the table, and while it
\* sleeps the pacing interval before its next attempt the tracker of the attempt
\* before is resolved or timed out and is no longer in the table.
C32_AttemptsSequential ==
    \A c \in Cmds :
      /\ Cardinality(OwnSeqs(c)) <= 1
      /\ cmd[c].pc = "v_sleep" => OwnSeqs(c) = {} /\ trk[c].ack_future # "pending"

\* a later attempt of a command is in flight, with its one tracker in the table
C32_Witness ==
    \E c \in Cmds :
      /\ cmd[c].attempt >= 1
      /\ cmd[c].pc = "wait_ack"
      /\ Cardinality(OwnSeqs(c)) = 1

\* C33: the step that starts a get batch leaves the trackers of the commands of
\* every other batch as they are, and leaves them in the table.
C33_GetStartKeepsOthers ==
    [][\A b \in Batches :
         /\ req[b].kind = "get"
         /\ batch[b].pc \in {"idle", "rate_limit"}
         /\ batch'[b].pc \notin {"idle", "rate_limit"}
         => \A c \in Cmds : c[1] # b => trk'[c] = trk[c] /\ OwnSeqs(c)' = OwnSeqs(c)]_vars

\* C34: an attempt after the first of an asynchronous command takes a sequence
\* number no earlier packet had, and while it waits for its reply a datagram
\* that carries the number of an attempt no longer in the table changes no
\* tracker, no entry of the table and no command's result.
C34_LateReplyDiscarded ==
    [][\A c \in Cmds :
         /\ req[c[1]].kind \in {"set", "get"} /\ cmd'[c].attempt > cmd[c].attempt
              => trk'[c].sequence_number \notin hist.assigned
         /\ cmd[c].attempt >= 1 /\ cmd[c].pc = "wait_ack" /\ trk[c].ack_future = "pending"
              => \A seq \in hist.assigned \ DOMAIN command_futures, payload \in ReplyPayloads :
                   LET S == datagram_received(St, Datagram(seq, payload))
                   IN S.trk = trk /\ S.command_futures = command_futures /\ S.cmd = cmd]_vars

\* a reply to an attempt that timed out has arrived while a later attempt was
\* waiting, and the later attempt is still waiting
C34_Witness ==
    /\ hist.late
    /\ \E c \in Cmds : cmd[c].attempt >= 1 /\ cmd[c].pc = "wait_ack" /\ trk[c].ack_future = "pending"

\* C35: a set command turns successful only for a parameter for which a reply
\* with header 0x90 and class 0x5z has arrived under the sequence number of one
\* of its own attempts.
C35_NoFalseSuccess ==
    [][\A c \in Cmds :
         req[c[1]].kind = "set" /\ cmd'[c].ok /\ ~cmd[c].ok
         => <<c[1], cmd'[c].item>> \in hist'.completed]_vars

\* one set command has succeeded after its own completion arrived and another
\* has ended without success
C35_Witness ==
    \E c, d \in Cmds :
      /\ req[c[1]].kind = "set" /\ cmd[c].pc = "done" /\ cmd[c].ok
      /\ <<c[1], cmd[c].item>> \in hist.completed
      /\ req[d[1]].kind = "set" /\ cmd[d].pc = "done" /\ ~cmd[d].ok /\ cmd[d].item > 0

\* C36: when the tasks of a controlled set batch have ended, more than half of
\* them without success, and the limit is above 1 (fallback enabled), the limit
\* goes down and the failed items are handed to the sequential fallback.
C36_RatioOverDispatched ==
    [][\A b \in Batches :
         /\ req[b].kind = "set"
         /\ config.concurrency_enabled /\ config.fallback_to_sequential
         /\ batch[b].pc = "gather" /\ batch'[b].pc # "gather"
         /\ current_concurrency_limit > 1
         /\ 2 * (Len(TaskItems(St, b)) - Cardinality(Succeeded(St, b))) > Len(TaskItems(St, b))
         => /\ current_concurrency_limit' < current_concurrency_limit
            /\ batch'[b].failed_params # << >>]_vars

\* C37: a get batch that has returned gave None if none of its inquiries got a
\* reply of a known shape, and otherwise a map whose keys are all parameters
\* whose inquiry got such a reply.
C37_NoReplyNoMap ==
    \A b \in Batches :
      req[b].kind \in {"get", "sync_get"} /\ batch[b].pc = "done"
      => LET names == {req[b].items[k].name : k \in 1..Len(req[b].items)}
             read == {n \in names : <<b, n>> \notin hist.unread}
         IN /\ read = {} => batch[b].ret = "None"
            /\ batch[b].ret # "None" => DOMAIN batch[b].config_dict \subseteq read

\* C38: after a call of connect or connect_async (both return True)
\* is_connected() is true, and after a call of disconnect or disconnect_async
\* it is false, until the next of these calls.
C38_ConnectedAfterConnect ==
    /\ hist.last_call \in {"connect", "connect_async"} => is_connected(St)
    /\ hist.last_call \in {"disconnect", "disconnect_async"} => ~is_connected(St)

\* C39: an asynchronous command that enters its attempt loop (is_connected() was
\* true at its start) finds the transport in place and sends a packet.
C39_ConnectedCanSend ==
    [][\A c \in Cmds :
         /\ req[c[1]].kind \in {"set", "get"}
         /\ cmd[c].pc \notin {"wait_ack", "ack_timeout", "v_sleep"}
         /\ cmd'[c].pc \in {"wait_ack", "v_sleep"}
         => transport /\ cmd'[c].sent >= 1]_vars

====
